---------------------------- MODULE Spec2Model ----------------------------
(***************************************************************************)
(* Model of the deduplication core of deduplino (src/src/index.ts, the     *)
(* part from line 141 on: linkToString, findCommonPattern, findPatterns,   *)
(* selectBestPatterns, createReference, createCompoundLink, applyPatterns, *)
(* autoEscape and deduplicate).                                            *)
(*                                                                         *)
(* Two specifications.  Spec starts where deduplicate is about to parse a  *)
(* text the parser accepts and lets the parser return any sequence of up   *)
(* to MaxLinks links.  SpecDeduplicate starts at the call of deduplicate   *)
(* with a text of TextPool and any options, runs the blank test and the    *)
(* auto-escape cascade, and lets the parser return one of a few samples.   *)
(* The parser is external: it is a set of accepted texts, fixed for a run, *)
(* and any such set is allowed.                                            *)
(*                                                                         *)
(* Representation.                                                         *)
(*  - A Link is a record [id, values]; id = "" stands for a null id and    *)
(*    values is the sequence of child Links.                               *)
(*  - A JavaScript string that the code builds with join(' ') and takes    *)
(*    apart with split(/\s+/) is represented by the sequence of its        *)
(*    whitespace delimited references; "" is the empty sequence.  Every    *)
(*    reference of the model is one character long and holds no            *)
(*    whitespace, so a string of n references has 2n-1 characters; the     *)
(*    substring arithmetic of applyPatterns is translated with these       *)
(*    lengths.                                                             *)
(*  - The text given to deduplicate and the texts autoEscape makes of it   *)
(*    are sequences of characters; the regular expressions, split, join    *)
(*    and trim work on the characters.                                     *)
(*  - A Map or Set of the code is a sequence in insertion order, because   *)
(*    forEach and Array.from visit the entries in that order.              *)
(*  - topPercentage is a fraction [num, den] with den a power of two, so   *)
(*    that the floating point product patterns.length * topPercentage is   *)
(*    exact.                                                               *)
(***************************************************************************)
EXTENDS Naturals, Integers, Sequences, FiniteSets, TLC

VARIABLES
  pc,                \* position inside deduplicate and autoEscape
  input,             \* argument of deduplicate
  autoEscapeEnabled, \* argument of deduplicate
  failOnParseError,  \* argument of deduplicate
  accepts,           \* the texts parser.parse returns on (it throws on the rest)
  stages,            \* the texts autoEscape has computed: escaped, secondPass, fallback
  processedInput,    \* let processedInput
  parseCalls,        \* the arguments of the calls of parser.parse so far
  links,             \* Link[] returned by parser.parse
  topPercentage,     \* argument of deduplicate
  patterns,          \* const patterns = findPatterns(links), sorted in place later
  selectedPatterns,  \* const selectedPatterns = selectBestPatterns(...)
  deduplicatedLinks, \* const deduplicatedLinks = applyPatterns(...)
  returnValue,       \* the DeduplicationResult returned
  other              \* the locals of a second invocation, while it does not run

vars ==
  <<pc, input, autoEscapeEnabled, failOnParseError, accepts, stages,
    processedInput, parseCalls, links, topPercentage, patterns,
    selectedPatterns, deduplicatedLinks, returnValue, other>>

---------------------------------------------------------------------------
(* Bounds and input universe *)

MaxLinks == 4

Min(a, b) == IF a < b THEN a ELSE b
Max(a, b) == IF a > b THEN a ELSE b

InSeq(x, s) == \E k \in DOMAIN s : s[k] = x

\* new Link(reference, [])
Leaf(t) == [id |-> t, values |-> <<>>]

Leaves(ws) == [k \in 1..Len(ws) |-> Leaf(ws[k])]

\* What the parser yields for "(w1 w2 ...)"
Flat(ws) == [id |-> "", values |-> Leaves(ws)]

\* What the parser yields for "(f1 f2 ...) r1 r2 ..."
Nested(first, rest) == [id |-> "", values |-> <<Flat(first)>> \o Leaves(rest)]

\* What the parser yields for "(id: w1 w2 ...)"
Named(id, ws) == [id |-> id, values |-> Leaves(ws)]

LinkPool ==
  { Leaf("a"),
    Flat(<<"a", "b">>),
    Flat(<<"a", "b", "a">>),
    Flat(<<"a", "b", "b">>),
    Flat(<<"b", "b", "a">>),
    Nested(<<"a", "b">>, <<"a">>),
    Named("1", <<"a", "b">>) }

\* The results of parser.parse for the texts considered
Inputs == UNION { [1..n -> LinkPool] : n \in 1..MaxLinks }

\* Entries that flatten to the same content with and without a compound
\* first child
StructuredPool ==
  { Nested(<<"a", "b">>, <<"a">>),
    Nested(<<"a">>, <<"b", "a">>),
    Flat(<<"a", "b", "a">>),
    Flat(<<"a", "b", "b">>),
    Flat(<<"b", "b", "a">>) }

StructuredInputs == UNION { [1..n -> StructuredPool] : n \in 1..MaxLinks }

\* Entries that hold numbers as references
NumericPool ==
  { Flat(<<"1", "a">>),
    Flat(<<"1", "b">>),
    Flat(<<"a", "b">>),
    Flat(<<"a", "2">>),
    Named("1", <<"a", "b">>) }

NumericInputs == UNION { [1..n -> NumericPool] : n \in 1..MaxLinks }

\* topPercentage values in [0,1] that are exact in binary floating point
TopPercentages ==
  { [num |-> 0, den |-> 1], [num |-> 1, den |-> 4],
    [num |-> 1, den |-> 2], [num |-> 1, den |-> 1] }

---------------------------------------------------------------------------
(* linkToString *)

RECURSIVE flatten(_), flattenAll(_)

\* The closure flatten of linkToString: the references it pushes for l.
flatten(l) ==
  IF l.id # "" /\ Len(l.values) = 0 THEN <<l.id>>
  ELSE IF Len(l.values) > 0 THEN flattenAll(l.values)
  ELSE <<>>

\* values.forEach(flatten)
flattenAll(vs) ==
  IF vs = <<>> THEN <<>> ELSE flatten(Head(vs)) \o flattenAll(Tail(vs))

linkToString(link) ==
  IF link.id # "" /\ Len(link.values) = 0 THEN <<link.id>>
  ELSE IF Len(link.values) > 0 THEN flattenAll(link.values)
  ELSE <<>>

\* s.split(/\s+/).length: splitting "" gives [""], of length 1
splitLength(s) == IF s = <<>> THEN 1 ELSE Len(s)

---------------------------------------------------------------------------
(* findCommonPattern *)

\* The value of matchLen when the while loop ends; at(r, m) is the m-th
\* reference compared (from the front for prefix, from the back for suffix).
matchLength(references1, references2, type) ==
  LET len1 == Len(references1)
      len2 == Len(references2)
      lim == Max(0, Min(len1 - 1, len2 - 1))
      at(r, m) == IF type = "prefix" THEN r[m] ELSE r[Len(r) + 1 - m]
  IN CHOOSE k \in 0..lim :
       /\ \A m \in 1..k : at(references1, m) = at(references2, m)
       /\ k = lim \/ at(references1, k + 1) # at(references2, k + 1)

\* Mutant of findCommonPattern: the loop runs up to Math.min(len1, len2)
findCommonPatternUnlimited(references1, references2, type) ==
  LET len1 == Len(references1)
      len2 == Len(references2)
      at(r, m) == IF type = "prefix" THEN r[m] ELSE r[Len(r) + 1 - m]
      matchLen == CHOOSE k \in 0..Min(len1, len2) :
                    /\ \A m \in 1..k : at(references1, m) = at(references2, m)
                    /\ \/ k = Min(len1, len2)
                       \/ at(references1, k + 1) # at(references2, k + 1)
  IN IF matchLen > 0
       THEN IF type = "prefix"
              THEN SubSeq(references1, 1, matchLen)
              ELSE SubSeq(references1, len1 - matchLen + 1, len1)
       ELSE <<>>

\* null is represented by <<>>: the callers only test the result for truthiness
findCommonPattern(references1, references2, type) ==
  LET matchLen == matchLength(references1, references2, type)
      len1 == Len(references1)
  IN IF matchLen > 0
       THEN IF type = "prefix"
              THEN SubSeq(references1, 1, matchLen)
              ELSE SubSeq(references1, len1 - matchLen + 1, len1)
       ELSE <<>>

---------------------------------------------------------------------------
(* findPatterns *)

\* Mutant of isValid: >= 3 instead of >= 2
isValidFromThree(link) == splitLength(linkToString(link)) >= 3

\* Mutant of isValid: >= 1 instead of >= 2
isValidFromOne(link) == splitLength(linkToString(link)) >= 1

\* links.filter(link => linkToString(link).split(/\s+/).length >= 2)
isValid(link) == splitLength(linkToString(link)) >= 2

validLinksOf(ls) == SelectSeq(ls, isValid)

\* !link.id && link.values?.length > 1 && link.values[0].values?.length > 0
isStructured(link) ==
  /\ link.id = ""
  /\ Len(link.values) > 1
  /\ Len(link.values[1].values) > 0

structuredLinksOf(validLinks) == SelectSeq(validLinks, isStructured)

\* The keys of a Map/Set filled from the sequence s, in insertion order
RECURSIVE insertionOrder(_)
insertionOrder(s) ==
  IF s = <<>> THEN <<>>
  ELSE LET front == insertionOrder(SubSeq(s, 1, Len(s) - 1))
           last == s[Len(s)]
       IN IF InSeq(last, front) THEN front ELSE Append(front, last)

contentsOf(ls) == [k \in 1..Len(ls) |-> linkToString(ls[k])]

\* validLinks.filter(link => linkToString(link) === content).length,
\* which is also the value exactCounts holds for content
occurrences(validLinks, content) ==
  Cardinality({k \in DOMAIN validLinks : linkToString(validLinks[k]) = content})

\* new Set(structuredLinks.map(linkToString).filter(c => exactCounts.get(c) >= 2))
structuredDuplicatesOf(validLinks) ==
  LET cs == contentsOf(structuredLinksOf(validLinks))
  IN insertionOrder(SelectSeq(cs, LAMBDA c : occurrences(validLinks, c) >= 2))

\* Mutant of isExactDuplicate: count >= 1 instead of count >= 2
isExactDuplicateFromOne(count, content, structuredDuplicates) ==
  count >= 1 /\ ~InSeq(content, structuredDuplicates)

\* if (count >= 2 && !structuredDuplicates.has(content))
isExactDuplicate(count, content, structuredDuplicates) ==
  count >= 2 /\ ~InSeq(content, structuredDuplicates)

\* exactCounts.forEach: the exact patterns, in the insertion order of exactCounts
exactPatternsOf(validLinks) ==
  LET keys == insertionOrder(contentsOf(validLinks))
      dups == structuredDuplicatesOf(validLinks)
      kept == SelectSeq(keys, LAMBDA c :
                isExactDuplicate(occurrences(validLinks, c), c, dups))
  IN [k \in 1..Len(kept) |->
        [type |-> "exact", pattern |-> kept[k], items |-> <<kept[k]>>,
         count |-> occurrences(validLinks, kept[k])]]

\* Mutant of mapAdd: a new Set for every item
mapAddAlwaysNew(map, key, item) ==
  Append(map, [key |-> key, items |-> <<item>>])

\* if (!map.has(key)) map.set(key, new Set()); map.get(key).add(item)
mapAdd(map, key, item) ==
  IF \E k \in DOMAIN map : map[k].key = key
    THEN [k \in DOMAIN map |->
            IF map[k].key = key /\ ~InSeq(item, map[k].items)
              THEN [map[k] EXCEPT !.items = Append(@, item)]
              ELSE map[k]]
    ELSE Append(map, [key |-> key, items |-> <<item>>])

\* Mutant of structuredPrefixes: the first child of the last matching link
RECURSIVE structuredPrefixesOfLast(_, _, _)
structuredPrefixesOfLast(validLinks, dups, prefixMap) ==
  IF dups = <<>> THEN prefixMap
  ELSE LET content == Head(dups)
           matchingLinks == SelectSeq(structuredLinksOf(validLinks),
                              LAMBDA l : linkToString(l) = content)
           prefix == linkToString(matchingLinks[Len(matchingLinks)].values[1])
           added == IF Len(matchingLinks) >= 2 /\ prefix # <<>>
                      THEN mapAdd(prefixMap, prefix, content)
                      ELSE prefixMap
       IN structuredPrefixesOfLast(validLinks, Tail(dups), added)

\* structuredDuplicates.forEach(...): the entries it puts into prefixMap
RECURSIVE structuredPrefixes(_, _, _)
structuredPrefixes(validLinks, dups, prefixMap) ==
  IF dups = <<>> THEN prefixMap
  ELSE LET content == Head(dups)
           matchingLinks == SelectSeq(structuredLinksOf(validLinks),
                              LAMBDA l : linkToString(l) = content)
           prefix == linkToString(matchingLinks[1].values[1])
           added == IF Len(matchingLinks) >= 2
                       /\ Len(matchingLinks[1].values) > 1
                       /\ prefix # <<>>
                      THEN mapAdd(prefixMap, prefix, content)
                      ELSE prefixMap
       IN structuredPrefixes(validLinks, Tail(dups), added)

\* One pass of the body of the inner loop, for the pair (i, j)
pairStep(validLinks, i, j, maps) ==
  LET content1 == linkToString(validLinks[i])
      content2 == linkToString(validLinks[j])
      prefix == findCommonPattern(content1, content2, "prefix")
      suffix == findCommonPattern(content1, content2, "suffix")
  IN IF isStructured(validLinks[i]) \/ isStructured(validLinks[j])
          \/ content1 = content2
       THEN maps
       ELSE [prefixMap |->
               IF prefix # <<>>
                 THEN mapAdd(mapAdd(maps.prefixMap, prefix, content1),
                             prefix, content2)
                 ELSE maps.prefixMap,
             suffixMap |->
               IF suffix # <<>>
                 THEN mapAdd(mapAdd(maps.suffixMap, suffix, content1),
                             suffix, content2)
                 ELSE maps.suffixMap]

\* for (i = 0 ...) for (j = i + 1 ...)
RECURSIVE pairLoop(_, _, _, _)
pairLoop(validLinks, i, j, maps) ==
  IF i > Len(validLinks) THEN maps
  ELSE IF j > Len(validLinks) THEN pairLoop(validLinks, i + 1, i + 2, maps)
  ELSE pairLoop(validLinks, i, j + 1, pairStep(validLinks, i, j, maps))

\* Mutant of sumOccurrences: every item counts once
sumOccurrencesOnce(validLinks, items) == Len(items)

\* itemArray.reduce((sum, item) => sum + validLinks.filter(...).length, 0)
RECURSIVE sumOccurrences(_, _)
sumOccurrences(validLinks, items) ==
  IF items = <<>> THEN 0
  ELSE occurrences(validLinks, Head(items))
         + sumOccurrences(validLinks, Tail(items))

\* addPatternsFromMap: a Set that is in the map has at least one item
addPatternsFromMap(validLinks, map, type) ==
  [k \in 1..Len(map) |->
     [type |-> type, pattern |-> map[k].key, items |-> map[k].items,
      count |-> sumOccurrences(validLinks, map[k].items)]]

findPatterns(ls) ==
  LET validLinks == validLinksOf(ls)
      structured == structuredPrefixes(validLinks,
                      structuredDuplicatesOf(validLinks), <<>>)
      maps == pairLoop(validLinks, 1, 2,
                [prefixMap |-> structured, suffixMap |-> <<>>])
  IN exactPatternsOf(validLinks)
       \o addPatternsFromMap(validLinks, maps.prefixMap, "prefix")
       \o addPatternsFromMap(validLinks, maps.suffixMap, "suffix")

---------------------------------------------------------------------------
(* selectBestPatterns *)

\* a.count * a.pattern.split(' ').length
score(p) == p.count * splitLength(p.pattern)

\* Mutant of compare: the scores are compared the other way round
compareAscending(a, b) ==
  IF score(b) # score(a) THEN score(a) - score(b) ELSE a.count - b.count

\* The comparator handed to patterns.sort: negative when a goes before b
compare(a, b) ==
  IF score(b) # score(a) THEN score(b) - score(a) ELSE b.count - a.count

\* Mutant of insertSorted: p goes before the elements it compares equal to
insertSortedUnstable(sorted, p) ==
  LET pos == Cardinality({k \in DOMAIN sorted : compare(sorted[k], p) < 0})
  IN SubSeq(sorted, 1, pos) \o <<p>> \o SubSeq(sorted, pos + 1, Len(sorted))

\* Array.prototype.sort is stable: p goes behind every element that does
\* not compare greater than it
insertSorted(sorted, p) ==
  LET pos == Cardinality({k \in DOMAIN sorted : compare(sorted[k], p) <= 0})
  IN SubSeq(sorted, 1, pos) \o <<p>> \o SubSeq(sorted, pos + 1, Len(sorted))

\* Mutant of sortPatterns: the array is left in discovery order
sortPatternsNot(ps) == ps

RECURSIVE sortPatterns(_)
sortPatterns(ps) ==
  IF ps = <<>> THEN <<>>
  ELSE insertSorted(sortPatterns(SubSeq(ps, 1, Len(ps) - 1)), ps[Len(ps)])

\* Mutant of ceilOfProduct: the product is rounded down
floorOfProduct(n, pct) == (n * pct.num) \div pct.den

\* Math.ceil(n * topPercentage)
ceilOfProduct(n, pct) == (n * pct.num + pct.den - 1) \div pct.den

\* Mutant of selectionLimit: Math.min instead of Math.max
selectionLimitMin(n, pct) == Min(1, ceilOfProduct(n, pct))

\* Math.max(1, Math.ceil(patterns.length * topPercentage))
selectionLimit(n, pct) == Max(1, ceilOfProduct(n, pct))

\* Mutant of hasOverlap: used items are not looked at
hasOverlapIgnored(pattern, usedItems) == FALSE

\* pattern.items.some(item => usedItems.has(item))
hasOverlap(pattern, usedItems) ==
  \E k \in DOMAIN pattern.items : pattern.items[k] \in usedItems

\* Mutant of limitReached: > instead of >=
limitReachedLate(selected, n, pct) == Len(selected) > selectionLimit(n, pct)

\* selected.length >= Math.max(...): the condition of the break
limitReached(selected, n, pct) == Len(selected) >= selectionLimit(n, pct)

\* for (const pattern of sorted) { ... }, from the k-th pattern on
RECURSIVE selectLoop(_, _, _, _, _)
selectLoop(sorted, k, selected, usedItems, pct) ==
  IF k > Len(sorted) THEN selected
  ELSE IF hasOverlap(sorted[k], usedItems)
    THEN selectLoop(sorted, k + 1, selected, usedItems, pct)
  ELSE LET pushed == Append(selected, sorted[k])
           used == usedItems \cup {sorted[k].items[m] : m \in DOMAIN sorted[k].items}
       IN IF limitReached(pushed, Len(sorted), pct)
            THEN pushed
            ELSE selectLoop(sorted, k + 1, pushed, used, pct)

selectBestPatterns(ps, pct) == selectLoop(sortPatterns(ps), 1, <<>>, {}, pct)

---------------------------------------------------------------------------
(* createReference, createCompoundLink, applyPatterns *)

\* refId.toString()
refToString(refId) == ToString(refId)

\* s.split(/\s+/): splitting "" gives [""]
splitReferences(s) == IF s = <<>> THEN <<"">> ELSE s

createReference(refId, references) ==
  [id |-> refToString(refId), values |-> Leaves(references)]

createCompoundLink(parts) == [id |-> "", values |-> parts]

\* Mutant of refIdAt: nextRefId is a module-level counter, which the
\* patterns of the other invocation have advanced
refIdAfterOther(k) ==
  IF "selectedPatterns" \in DOMAIN other
    THEN k + Len(other.selectedPatterns)
    ELSE k

\* Mutant of refIdAt: nextRefId starts at 0
refIdFromZero(k) == k - 1

\* let nextRefId = 1; patterns.forEach(... nextRefId++): the id of the k-th pattern
refIdAt(k) == k

\* Mutant of replacementOf: only the items of the first pattern are registered
replacementFirstPatternOnly(ps, content) ==
  IF Len(ps) >= 1 /\ InSeq(content, ps[1].items) THEN 1 ELSE 0

\* replacements.get(content): the position of the pattern whose item was
\* set last for content (Map.set overwrites), 0 when there is none
replacementOf(ps, content) ==
  LET holders == {k \in DOMAIN ps : InSeq(content, ps[k].items)}
  IN IF holders = {} THEN 0
     ELSE CHOOSE k \in holders : \A m \in holders : m <= k

\* Mutant of prefixLeftover: the pattern is not cut off the content
prefixLeftoverUnstripped(content, pattern) == content

\* content.substring(pattern.pattern.length).trim(): pattern has m references
\* and 2m-1 characters, so the cut removes the first m references of content
prefixLeftover(content, pattern) ==
  SubSeq(content, Len(pattern) + 1, Len(content))

\* content.substring(0, content.length - pattern.pattern.length).trim():
\* the cut keeps the first 2(n-m) characters, the first n-m references
suffixLeftover(content, pattern) ==
  SubSeq(content, 1, Len(content) - Len(pattern))

\* The link pushed as the use of the reference
usageLink(refId, pattern, content) ==
  LET refLink == Leaf(refToString(refId))
      suffix == prefixLeftover(content, pattern.pattern)
      prefix == suffixLeftover(content, pattern.pattern)
  IN IF pattern.type = "exact" THEN refLink
     ELSE IF pattern.type = "prefix"
       THEN IF suffix # <<>>
              THEN createCompoundLink(<<refLink>> \o Leaves(suffix))
              ELSE refLink
     ELSE IF prefix # <<>>
       THEN createCompoundLink(Leaves(prefix) \o <<refLink>>)
       ELSE refLink

\* Mutant of needsDefinition: definedPatterns is not consulted
needsDefinitionAlways(definedPatterns, refId) == TRUE

\* !definedPatterns.has(refId)
needsDefinition(definedPatterns, refId) == refId \notin definedPatterns

\* An element of the result array.  link is the Link that was pushed; tag,
\* src and ref record which push produced it: "keep" is result.push(link) for
\* an entry without replacement, "def" the push of createReference, "use" the
\* push of the usage; src is the position of the input link being processed
\* and ref the reference id (0 for "keep").
emitted(tag, link, src, ref) ==
  [tag |-> tag, link |-> link, src |-> src, ref |-> ref]

\* for (const link of links) { ... }, from the i-th link on
RECURSIVE applyLoop(_, _, _, _, _)
applyLoop(ls, ps, i, result, definedPatterns) ==
  IF i > Len(ls) THEN result
  ELSE LET content == linkToString(ls[i])
           k == replacementOf(ps, content)
           refId == refIdAt(k)
           definition == emitted("def",
                           createReference(refId, splitReferences(ps[k].pattern)),
                           i, refId)
           usage == emitted("use", usageLink(refId, ps[k], content), i, refId)
       IN IF k = 0
            THEN applyLoop(ls, ps, i + 1,
                           Append(result, emitted("keep", ls[i], i, 0)),
                           definedPatterns)
            ELSE applyLoop(ls, ps, i + 1,
                           (IF needsDefinition(definedPatterns, refId)
                              THEN Append(result, definition)
                              ELSE result) \o <<usage>>,
                           definedPatterns \cup {refId})

\* Mutant of applyPatterns: a pattern without a covered entry takes no id
applyPatternsSkippingUnused(ls, ps) ==
  applyLoop(ls,
            SelectSeq(ps, LAMBDA p :
              \E i \in DOMAIN ls : InSeq(linkToString(ls[i]), p.items)),
            1, <<>>, {})

applyPatterns(ls, ps) == applyLoop(ls, ps, 1, <<>>, {})

---------------------------------------------------------------------------
(* autoEscape.  The text handed to deduplicate is the sequence of its      *)
(* characters, each a string of length one.                                *)

\* \s of the regular expressions and of trim()
Whitespace == {" ", "\n", "\t"}

\* \w of the regular expressions, as far as the texts of the model go
WordChars == {"a", "b", "c", "1", "_"}

\* [a-zA-Z], as far as the texts of the model go
Letters == {"a", "b", "c"}

\* Mutant of isBlank: !input instead of !input.trim()
isBlankWithoutTrim(s) == s = <<>>

\* !input.trim()
isBlank(s) == \A k \in DOMAIN s : s[k] \in Whitespace

\* input.split('\n')
RECURSIVE splitLines(_)
splitLines(s) ==
  IF \E k \in DOMAIN s : s[k] = "\n"
    THEN LET k == CHOOSE k \in DOMAIN s :
                    /\ s[k] = "\n"
                    /\ \A m \in 1..(k - 1) : s[m] # "\n"
         IN <<SubSeq(s, 1, k - 1)>> \o splitLines(SubSeq(s, k + 1, Len(s)))
    ELSE <<s>>

\* The length of the run of non-whitespace characters a line starts with
runLength(line) ==
  CHOOSE n \in 0..Len(line) :
    /\ \A m \in 1..n : line[m] \notin Whitespace
    /\ n = Len(line) \/ line[n + 1] \in Whitespace

\* line.split(/\s+/).filter(reference => reference.length > 0)
RECURSIVE referencesOf(_)
referencesOf(line) ==
  IF line = <<>> THEN <<>>
  ELSE IF Head(line) \in Whitespace THEN referencesOf(Tail(line))
  ELSE <<SubSeq(line, 1, runLength(line))>>
         \o referencesOf(SubSeq(line, runLength(line) + 1, Len(line)))

\* Array.prototype.join
RECURSIVE join(_, _)
join(parts, separator) ==
  IF parts = <<>> THEN <<>>
  ELSE IF Len(parts) = 1 THEN parts[1]
  ELSE parts[1] \o separator \o join(Tail(parts), separator)

\* Mutant of quote: double quotes
quoteWithDoubleQuotes(reference) == <<"\"">> \o reference \o <<"\"">>

\* `'${reference}'`
quote(reference) == <<"'">> \o reference \o <<"'">>

\* [^\s'"()]
inClass(c) == c \notin Whitespace \cup {"'", "\"", "(", ")"}

isWordAt(s, p) == p \in DOMAIN s /\ s[p] \in WordChars

\* \b between the characters p - 1 and p
boundaryAt(s, p) == isWordAt(s, p - 1) # isWordAt(s, p)

\* The colons that can end [^\s'"()]+ when it starts at i
colonsFrom(s, i) ==
  {j \in (i + 1)..Len(s) :
     s[j] = ":" /\ \A m \in i..(j - 1) : inClass(s[m])}

\* The positions where [^\s'"()]*\b can end after the colon at j
endsFrom(s, j) ==
  {k \in j..Len(s) :
     /\ \A m \in (j + 1)..k : inClass(s[m])
     /\ boundaryAt(s, k + 1)}

SetMax(S) == CHOOSE x \in S : \A y \in S : y <= x

\* The end of the match of /\b([^\s'"()]+:[^\s'"()]*)\b/ that starts at i,
\* 0 when there is none; both quantifiers are greedy, the first one gives
\* back characters last
matchEnd(s, i) ==
  LET J == {j \in colonsFrom(s, i) : endsFrom(s, j) # {}}
  IN IF ~boundaryAt(s, i) \/ J = {} THEN 0
     ELSE SetMax(endsFrom(s, SetMax(J)))

\* input.replace(/\b([^\s'"()]+:[^\s'"()]*)\b/g, "'$1'") from position p on
RECURSIVE replaceFrom(_, _)
replaceFrom(s, p) ==
  IF p > Len(s) THEN <<>>
  ELSE IF matchEnd(s, p) = 0 THEN <<s[p]>> \o replaceFrom(s, p + 1)
  ELSE quote(SubSeq(s, p, matchEnd(s, p)))
         \o replaceFrom(s, matchEnd(s, p) + 1)

\* let escaped = input.replace(...)
firstPass(text) == replaceFrom(text, 1)

startsWith(reference, c) == Len(reference) >= 1 /\ reference[1] = c
endsWith(reference, c) ==
  Len(reference) >= 1 /\ reference[Len(reference)] = c

\* /^'.*'[,;.]$/ with the quote q
quotedWithPunctuation(reference, q) ==
  /\ Len(reference) >= 3
  /\ reference[1] = q
  /\ reference[Len(reference) - 1] = q
  /\ reference[Len(reference)] \in {",", ";", "."}

\* The first test of the second pass
isAlreadyQuoted(reference) ==
  \/ /\ startsWith(reference, "'")
     /\ endsWith(reference, "'") \/ quotedWithPunctuation(reference, "'")
  \/ /\ startsWith(reference, "\"")
     /\ endsWith(reference, "\"") \/ quotedWithPunctuation(reference, "\"")

\* /^[(){}[\],]+$/
isSimplePunctuation(reference) ==
  /\ Len(reference) >= 1
  /\ \A k \in DOMAIN reference :
       reference[k] \in {"(", ")", "{", "}", "[", "]", ","}

\* reference.includes(':') || /[()][a-zA-Z]|[a-zA-Z][()]/.test(reference)
isProblematic(reference) ==
  \/ \E k \in DOMAIN reference : reference[k] = ":"
  \/ \E k \in 1..(Len(reference) - 1) :
       \/ reference[k] \in {"(", ")"} /\ reference[k + 1] \in Letters
       \/ reference[k] \in Letters /\ reference[k + 1] \in {"(", ")"}

\* The reference as the second pass leaves it
escapeSecondPass(reference) ==
  IF isAlreadyQuoted(reference) THEN reference
  ELSE IF isSimplePunctuation(reference) THEN reference
  ELSE IF isProblematic(reference) THEN quote(reference)
  ELSE reference

\* The reference as the final fallback leaves it
escapeFallback(reference) ==
  IF startsWith(reference, "'") /\ endsWith(reference, "'") THEN reference
  ELSE IF startsWith(reference, "\"") /\ endsWith(reference, "\"")
    THEN reference
  ELSE IF isSimplePunctuation(reference) THEN reference
  ELSE quote(reference)

\* references.map(reference => ...).join(' ') of the second pass
secondPassLine(line) ==
  LET references == referencesOf(line)
  IN join([m \in 1..Len(references) |-> escapeSecondPass(references[m])],
          <<" ">>)

\* const secondPass = processedLines.join('\n')
secondPassOf(text) ==
  LET lines == splitLines(text)
  IN join([k \in 1..Len(lines) |-> secondPassLine(lines[k])], <<"\n">>)

\* references.map(reference => ...).join(' ') of the final fallback
fallbackLine(line) ==
  LET references == referencesOf(line)
  IN join([m \in 1..Len(references) |-> escapeFallback(references[m])],
          <<" ">>)

\* return lines.map(line => ...).join('\n')
fallbackOf(text) ==
  LET lines == splitLines(text)
  IN join([k \in 1..Len(lines) |-> fallbackLine(lines[k])], <<"\n">>)

\* The texts parser.parse can be called with in one run
CascadeTexts(text) ==
  {text, firstPass(text), secondPassOf(text), fallbackOf(text)}

\* The texts of the model
TextPool ==
  { <<>>,
    <<" ", "\n", "\t">>,
    <<"a", " ", "b">>,
    <<"a", ":", "b", " ", "c">>,
    <<"'", "a", ":", "b", "'", " ", " ", "c">>,
    <<"(", "c", " ", "a", ":", "b", ")">>,
    <<"a", ":", " ", "b">>,
    <<"(", "a", " ", "b", "\n", "(", " ", "c">>,
    <<")", ")", " ", "(", "(">>,
    <<" ", "a", " ", "b">>,
    <<"a", "\n", "\n", "b", ":", "c", ",", "\n">>,
    <<"1", ":", " ", "'", "a", ":", "b", "'", "\n", "1", " ", "c">> }

---------------------------------------------------------------------------
(* deduplicate *)

\* The value of returnValue while deduplicate has not returned
NoResult == [returned |-> FALSE]

\* output: input and output: processedInput
textOutput(text) == [text |-> text]

\* output: formatLinks(links, true)
formattedOutput(ls) == [formatLinks |-> ls]

\* The Link[] handed to formatLinks when no pattern is selected
unchangedLinks(ls) == [i \in 1..Len(ls) |-> emitted("keep", ls[i], i, 0)]

\* { output, success: false, reason, patternsApplied: 0 }
failure(output, reason) ==
  [output |-> output, success |-> FALSE, reason |-> reason,
   patternsApplied |-> 0]

\* Mutant of success: the count of the patterns is one short
successCountingFromZero(output, patternsApplied) ==
  [output |-> output, success |-> TRUE,
   patternsApplied |-> patternsApplied - 1]

\* { output, success: true, patternsApplied }
success(output, patternsApplied) ==
  [output |-> output, success |-> TRUE, patternsApplied |-> patternsApplied]

\* Mutant of cascadeParses: autoEscape always enters the catch block
cascadeParsesNever(text, accepted) == FALSE

\* try { parser.parse(text); return text } inside autoEscape: the parser
\* returns
cascadeParses(text, accepted) == text \in accepted

\* Mutant of parseThrows: the catch block of deduplicate is never entered
parseThrowsNever(text, accepted) == FALSE

\* Mutant of parseThrows: the catch block of deduplicate is always entered
parseThrowsAlways(text, accepted) == TRUE

\* try { links = parser.parse(processedInput) } catch: the parser throws
parseThrows(text, accepted) == text \notin accepted

\* Mutant of parsingFailedOutput: output: input
parsingFailedOutputOriginal(text, processed) == textOutput(text)

\* output: processedInput of the 'Parsing failed' result
parsingFailedOutput(text, processed) == textOutput(processed)

\* The value of other when there is no second invocation
NoInvocation == [pc |-> "none"]

\* A text the parser accepts as it stands
PlainInput == <<"a", " ", "b">>

\* Results of parser.parse in the runs that start from a text
ParsedSamples ==
  { <<Leaf("a"), Leaf("a")>>,
    <<Flat(<<"a", "b">>), Flat(<<"a", "b">>)>>,
    <<Flat(<<"a", "b">>), Flat(<<"b", "b", "a">>),
      Flat(<<"a", "b">>), Flat(<<"b", "b", "a">>)>> }

\* deduplicate after the blank test and `let processedInput = input`, with
\* the default autoEscapeEnabled and failOnParseError and a text the parser
\* accepts
Init ==
  /\ pc = "start"
  /\ input = PlainInput
  /\ autoEscapeEnabled = FALSE
  /\ failOnParseError = FALSE
  /\ accepts = {PlainInput}
  /\ stages = <<>>
  /\ processedInput = PlainInput
  /\ parseCalls = <<>>
  /\ links = <<>>
  /\ topPercentage \in TopPercentages
  /\ patterns = <<>>
  /\ selectedPatterns = <<>>
  /\ deduplicatedLinks = <<>>
  /\ returnValue = NoResult
  /\ other = NoInvocation

\* The call of deduplicate with any text and any options; accepts is the
\* set of the texts parser.parse does not throw on
InitDeduplicate ==
  /\ pc = "entry"
  /\ input \in TextPool
  /\ autoEscapeEnabled \in BOOLEAN
  /\ failOnParseError \in BOOLEAN
  /\ accepts \in SUBSET CascadeTexts(input)
  /\ stages = <<>>
  /\ processedInput = <<>>
  /\ parseCalls = <<>>
  /\ links = <<>>
  /\ topPercentage \in TopPercentages
  /\ patterns = <<>>
  /\ selectedPatterns = <<>>
  /\ deduplicatedLinks = <<>>
  /\ returnValue = NoResult
  /\ other = NoInvocation

\* if (!input.trim()) return { output: input, ... reason: 'Empty input' ... }
ReturnEmpty ==
  /\ pc = "entry"
  /\ isBlank(input)
  /\ returnValue' = failure(textOutput(input), "Empty input")
  /\ pc' = "empty"
  /\ UNCHANGED <<other,
                 input, autoEscapeEnabled, failOnParseError, accepts, stages,
                 processedInput, parseCalls, links, topPercentage, patterns,
                 selectedPatterns, deduplicatedLinks>>

\* let processedInput = input, autoEscapeEnabled being false
SkipAutoEscape ==
  /\ pc = "entry"
  /\ ~isBlank(input)
  /\ ~autoEscapeEnabled
  /\ processedInput' = input
  /\ pc' = "start"
  /\ UNCHANGED <<other,
                 input, autoEscapeEnabled, failOnParseError, accepts, stages,
                 parseCalls, links, topPercentage, patterns,
                 selectedPatterns, deduplicatedLinks, returnValue>>

\* autoEscape: escaped = input.replace(...); parser.parse(escaped);
\* return escaped, or the catch block is entered
AutoEscapeFirstPass ==
  /\ pc = "entry"
  /\ ~isBlank(input)
  /\ autoEscapeEnabled
  /\ stages' = <<firstPass(input)>>
  /\ parseCalls' = Append(parseCalls, firstPass(input))
  /\ IF cascadeParses(firstPass(input), accepts)
       THEN processedInput' = firstPass(input) /\ pc' = "start"
       ELSE processedInput' = processedInput /\ pc' = "secondPass"
  /\ UNCHANGED <<other,
                 input, autoEscapeEnabled, failOnParseError, accepts, links,
                 topPercentage, patterns, selectedPatterns,
                 deduplicatedLinks, returnValue>>

\* autoEscape: secondPass = ...; parser.parse(secondPass); return
\* secondPass, or the second catch block is entered
AutoEscapeSecondPass ==
  /\ pc = "secondPass"
  /\ stages' = Append(stages, secondPassOf(input))
  /\ parseCalls' = Append(parseCalls, secondPassOf(input))
  /\ IF cascadeParses(secondPassOf(input), accepts)
       THEN processedInput' = secondPassOf(input) /\ pc' = "start"
       ELSE processedInput' = processedInput /\ pc' = "fallback"
  /\ UNCHANGED <<other,
                 input, autoEscapeEnabled, failOnParseError, accepts, links,
                 topPercentage, patterns, selectedPatterns,
                 deduplicatedLinks, returnValue>>

\* autoEscape: the final fallback is returned as it is
AutoEscapeFallback ==
  /\ pc = "fallback"
  /\ stages' = Append(stages, fallbackOf(input))
  /\ processedInput' = fallbackOf(input)
  /\ pc' = "start"
  /\ UNCHANGED <<other,
                 input, autoEscapeEnabled, failOnParseError, accepts,
                 parseCalls, links, topPercentage, patterns,
                 selectedPatterns, deduplicatedLinks, returnValue>>

\* links = parser.parse(processedInput) returns
Parse ==
  /\ pc = "start"
  /\ ~parseThrows(processedInput, accepts)
  /\ parseCalls' = Append(parseCalls, processedInput)
  /\ links' \in Inputs
  /\ pc' = "parsed"
  /\ UNCHANGED <<other,
                 input, autoEscapeEnabled, failOnParseError, accepts, stages,
                 processedInput, topPercentage, patterns, selectedPatterns,
                 deduplicatedLinks, returnValue>>

\* links = parser.parse(processedInput) returns, in the runs that start
\* from a text
ParseAccepted ==
  /\ pc = "start"
  /\ ~parseThrows(processedInput, accepts)
  /\ parseCalls' = Append(parseCalls, processedInput)
  /\ links' \in ParsedSamples
  /\ pc' = "parsed"
  /\ UNCHANGED <<other,
                 input, autoEscapeEnabled, failOnParseError, accepts, stages,
                 processedInput, topPercentage, patterns, selectedPatterns,
                 deduplicatedLinks, returnValue>>

\* parser.parse(processedInput) throws; if (failOnParseError) throw new
\* ParseError()
ThrowParseError ==
  /\ pc = "start"
  /\ parseThrows(processedInput, accepts)
  /\ failOnParseError
  /\ parseCalls' = Append(parseCalls, processedInput)
  /\ pc' = "thrown"
  /\ UNCHANGED <<other,
                 input, autoEscapeEnabled, failOnParseError, accepts, stages,
                 processedInput, links, topPercentage, patterns,
                 selectedPatterns, deduplicatedLinks, returnValue>>

\* parser.parse(processedInput) throws; return { output: processedInput,
\* ... reason: 'Parsing failed' ... }
ReturnParsingFailed ==
  /\ pc = "start"
  /\ parseThrows(processedInput, accepts)
  /\ ~failOnParseError
  /\ parseCalls' = Append(parseCalls, processedInput)
  /\ returnValue' = failure(parsingFailedOutput(input, processedInput),
                          "Parsing failed")
  /\ pc' = "parsingFailed"
  /\ UNCHANGED <<other,
                 input, autoEscapeEnabled, failOnParseError, accepts, stages,
                 processedInput, links, topPercentage, patterns,
                 selectedPatterns, deduplicatedLinks>>

\* const patterns = findPatterns(links)
FindPatterns ==
  /\ pc = "parsed"
  /\ patterns' = findPatterns(links)
  /\ pc' = "found"
  /\ UNCHANGED <<other,
                 input, autoEscapeEnabled, failOnParseError, accepts, stages,
                 processedInput, parseCalls, links, topPercentage,
                 selectedPatterns, deduplicatedLinks, returnValue>>

\* const selectedPatterns = selectBestPatterns(patterns, topPercentage);
\* patterns.sort sorts the array of the caller in place
SelectBestPatterns ==
  /\ pc = "found"
  /\ selectedPatterns' = selectBestPatterns(patterns, topPercentage)
  /\ patterns' = sortPatterns(patterns)
  /\ pc' = "selected"
  /\ UNCHANGED <<other,
                 input, autoEscapeEnabled, failOnParseError, accepts, stages,
                 processedInput, parseCalls, links, topPercentage,
                 deduplicatedLinks, returnValue>>

\* if (selectedPatterns.length === 0) return { output: formatLinks(links, true), ... }
ReturnNoPatterns ==
  /\ pc = "selected"
  /\ Len(selectedPatterns) = 0
  /\ returnValue' = failure(formattedOutput(unchangedLinks(links)),
                       "No deduplication patterns found")
  /\ pc' = "noPatterns"
  /\ UNCHANGED <<other,
                 input, autoEscapeEnabled, failOnParseError, accepts, stages,
                 processedInput, parseCalls, links, topPercentage, patterns,
                 selectedPatterns, deduplicatedLinks>>

\* const deduplicatedLinks = applyPatterns(links, selectedPatterns); return {...}
ApplyPatterns ==
  /\ pc = "selected"
  /\ Len(selectedPatterns) # 0
  /\ deduplicatedLinks' = applyPatterns(links, selectedPatterns)
  /\ returnValue' = success(formattedOutput(deduplicatedLinks'),
                       Len(selectedPatterns))
  /\ pc' = "done"
  /\ UNCHANGED <<other,
                 input, autoEscapeEnabled, failOnParseError, accepts, stages,
                 processedInput, parseCalls, links, topPercentage, patterns,
                 selectedPatterns>>

\* The Link[] handed to formatLinks by the return statement reached
outputLinks ==
  IF pc = "done" THEN deduplicatedLinks ELSE unchangedLinks(links)

Next ==
  \/ Parse
  \/ FindPatterns
  \/ SelectBestPatterns
  \/ ReturnNoPatterns
  \/ ApplyPatterns

Spec == Init /\ [][Next]_vars

NextDeduplicate ==
  \/ ReturnEmpty
  \/ SkipAutoEscape
  \/ AutoEscapeFirstPass
  \/ AutoEscapeSecondPass
  \/ AutoEscapeFallback
  \/ ParseAccepted
  \/ ThrowParseError
  \/ ReturnParsingFailed
  \/ FindPatterns
  \/ SelectBestPatterns
  \/ ReturnNoPatterns
  \/ ApplyPatterns

SpecDeduplicate == InitDeduplicate /\ [][NextDeduplicate]_vars

\* The locals of the invocation that runs
Locals ==
  [pc |-> pc, input |-> input, autoEscapeEnabled |-> autoEscapeEnabled,
   failOnParseError |-> failOnParseError, accepts |-> accepts,
   stages |-> stages, processedInput |-> processedInput,
   parseCalls |-> parseCalls, links |-> links,
   topPercentage |-> topPercentage, patterns |-> patterns,
   selectedPatterns |-> selectedPatterns,
   deduplicatedLinks |-> deduplicatedLinks, returnValue |-> returnValue]

\* The locals of an invocation that is about to parse a text the parser
\* accepts
LocalsAtStart(pct) ==
  [pc |-> "start", input |-> PlainInput, autoEscapeEnabled |-> FALSE,
   failOnParseError |-> FALSE, accepts |-> {PlainInput}, stages |-> <<>>,
   processedInput |-> PlainInput, parseCalls |-> <<>>, links |-> <<>>,
   topPercentage |-> pct, patterns |-> <<>>, selectedPatterns |-> <<>>,
   deduplicatedLinks |-> <<>>, returnValue |-> NoResult]

\* Two invocations of deduplicate, each with its own topPercentage and each
\* about to parse
InitInterleaved ==
  /\ pc = "start"
  /\ input = PlainInput
  /\ autoEscapeEnabled = FALSE
  /\ failOnParseError = FALSE
  /\ accepts = {PlainInput}
  /\ stages = <<>>
  /\ processedInput = PlainInput
  /\ parseCalls = <<>>
  /\ links = <<>>
  /\ topPercentage \in TopPercentages
  /\ patterns = <<>>
  /\ selectedPatterns = <<>>
  /\ deduplicatedLinks = <<>>
  /\ returnValue = NoResult
  /\ other \in {LocalsAtStart(pct) : pct \in TopPercentages}

\* The invocation that runs is suspended and the other one goes on.  The
\* module has no variable outside its functions, so the locals are all
\* there is to exchange.
Switch ==
  /\ other' = Locals
  /\ pc' = other.pc
  /\ input' = other.input
  /\ autoEscapeEnabled' = other.autoEscapeEnabled
  /\ failOnParseError' = other.failOnParseError
  /\ accepts' = other.accepts
  /\ stages' = other.stages
  /\ processedInput' = other.processedInput
  /\ parseCalls' = other.parseCalls
  /\ links' = other.links
  /\ topPercentage' = other.topPercentage
  /\ patterns' = other.patterns
  /\ selectedPatterns' = other.selectedPatterns
  /\ deduplicatedLinks' = other.deduplicatedLinks
  /\ returnValue' = other.returnValue

NextInterleaved ==
  \/ Switch
  \/ ParseAccepted
  \/ FindPatterns
  \/ SelectBestPatterns
  \/ ReturnNoPatterns
  \/ ApplyPatterns

SpecInterleaved == InitInterleaved /\ [][NextInterleaved]_vars

\* links = parser.parse(processedInput), for texts with structured entries
ParseStructured ==
  /\ pc = "start"
  /\ ~parseThrows(processedInput, accepts)
  /\ parseCalls' = Append(parseCalls, processedInput)
  /\ links' \in StructuredInputs
  /\ pc' = "parsed"
  /\ UNCHANGED <<other,
                 input, autoEscapeEnabled, failOnParseError, accepts, stages,
                 processedInput, topPercentage, patterns, selectedPatterns,
                 deduplicatedLinks, returnValue>>

NextStructured ==
  \/ ParseStructured
  \/ FindPatterns
  \/ SelectBestPatterns
  \/ ReturnNoPatterns
  \/ ApplyPatterns

\* The pipeline on inputs with structured entries
SpecStructured == Init /\ [][NextStructured]_vars

\* links = parser.parse(processedInput), for texts with numbers in them
ParseNumeric ==
  /\ pc = "start"
  /\ ~parseThrows(processedInput, accepts)
  /\ parseCalls' = Append(parseCalls, processedInput)
  /\ links' \in NumericInputs
  /\ pc' = "parsed"
  /\ UNCHANGED <<other,
                 input, autoEscapeEnabled, failOnParseError, accepts, stages,
                 processedInput, topPercentage, patterns, selectedPatterns,
                 deduplicatedLinks, returnValue>>

NextNumeric ==
  \/ ParseNumeric
  \/ FindPatterns
  \/ SelectBestPatterns
  \/ ReturnNoPatterns
  \/ ApplyPatterns

\* The pipeline on inputs with numbers in them
SpecNumeric == Init /\ [][NextNumeric]_vars

\* Patterns whose items are not the content of any entry considered
ForeignPatterns ==
  { [type |-> "exact", pattern |-> <<"c", "d">>,
     items |-> <<<<"c", "d">>>>, count |-> 2],
    [type |-> "prefix", pattern |-> <<"c">>,
     items |-> <<<<"c", "d">>, <<"c", "e">>>>, count |-> 2] }

InsertAt(s, at, x) == SubSeq(s, 1, at - 1) \o <<x>> \o SubSeq(s, at, Len(s))

\* The pattern lists handed to applyPatterns for the links ls: what
\* selectBestPatterns returns for them, with a foreign pattern at any place
ArgumentsFor(ls) ==
  LET selected == selectBestPatterns(findPatterns(ls), [num |-> 1, den |-> 1])
  IN {InsertAt(selected, at, foreign) :
        at \in 1..(Len(selected) + 1), foreign \in ForeignPatterns}

\* A call applyPatterns(links, selectedPatterns)
InitApplyPatterns ==
  /\ pc = "apply"
  /\ input = PlainInput
  /\ autoEscapeEnabled = FALSE
  /\ failOnParseError = FALSE
  /\ accepts = {PlainInput}
  /\ stages = <<>>
  /\ processedInput = PlainInput
  /\ parseCalls = <<PlainInput>>
  /\ links \in Inputs
  /\ topPercentage = [num |-> 1, den |-> 1]
  /\ patterns = <<>>
  /\ selectedPatterns \in ArgumentsFor(links)
  /\ deduplicatedLinks = <<>>
  /\ returnValue = NoResult
  /\ other = NoInvocation

\* applyPatterns runs to its return statement
CallApplyPatterns ==
  /\ pc = "apply"
  /\ deduplicatedLinks' = applyPatterns(links, selectedPatterns)
  /\ pc' = "applied"
  /\ UNCHANGED <<other,
                 input, autoEscapeEnabled, failOnParseError, accepts, stages,
                 processedInput, parseCalls, links, topPercentage, patterns,
                 selectedPatterns, returnValue>>

NextApplyPatterns == CallApplyPatterns

\* The calls of applyPatterns with a pattern that covers no entry
SpecApplyPatterns == InitApplyPatterns /\ [][NextApplyPatterns]_vars

\* topPercentage one half and one: the walk of selectBestPatterns stops at
\* the budget, or runs to the end of the array
InitSelection ==
  /\ Init
  /\ topPercentage \in {[num |-> 1, den |-> 2], [num |-> 1, den |-> 1]}

\* The pipeline after the final parse, as in Spec, for these calls
SpecSelection == InitSelection /\ [][Next]_vars

\* findPatterns does not read topPercentage: one value of it is enough
InitFindPatterns ==
  /\ Init
  /\ topPercentage = [num |-> 1, den |-> 1]

NextFindPatterns ==
  \/ Parse
  \/ FindPatterns

\* The calls of findPatterns
SpecFindPatterns == InitFindPatterns /\ [][NextFindPatterns]_vars

---------------------------------------------------------------------------
(* Vocabulary of the properties *)

Finished == pc \in {"done", "noPatterns"}

Out == outputLinks

Definitions == {k \in DOMAIN Out : Out[k].tag = "def"}
Usages == {k \in DOMAIN Out : Out[k].tag = "use"}
DefinitionsOf(r) == {k \in Definitions : Out[k].ref = r}
UsagesOf(r) == {k \in Usages : Out[k].ref = r}
UsedIds == {Out[k].ref : k \in Usages}

\* The tokens of a sequence of leaves
ChildIds(vs) == [m \in 1..Len(vs) |-> vs[m].id]

\* The token sequence a definition entry carries
Payload(k) == ChildIds(Out[k].link.values)

\* The flattened content of the i-th input entry
ContentOf(i) == linkToString(links[i])

\* The selected patterns that cover a content
Covering(content) ==
  {k \in DOMAIN selectedPatterns : InSeq(content, selectedPatterns[k].items)}

\* The usage u with its reference replaced by the tokens payload
ExpandUsage(u, type, payload) ==
  IF Len(u.values) = 0 THEN payload
  ELSE IF type = "prefix" THEN payload \o ChildIds(Tail(u.values))
  ELSE ChildIds(SubSeq(u.values, 1, Len(u.values) - 1)) \o payload

\* The usage u holds a reference to the id named idString where type puts it
RefersTo(u, type, idString) ==
  IF Len(u.values) = 0 THEN u.id = idString
  ELSE /\ u.id = ""
       /\ type # "exact"
       /\ Len(u.values) >= 2
       /\ IF type = "prefix"
            THEN u.values[1] = Leaf(idString)
            ELSE u.values[Len(u.values)] = Leaf(idString)

\* max(1, ceil(n * pct)) in exact arithmetic
Budget(n, pct) ==
  LET c == CHOOSE c \in 0..n :
             /\ c * pct.den >= n * pct.num
             /\ c = 0 \/ (c - 1) * pct.den < n * pct.num
  IN IF c < 1 THEN 1 ELSE c

\* The patterns findPatterns discovers for the input
Discovered == findPatterns(links)

SharesItem(p, q) == \E a \in DOMAIN p.items : InSeq(p.items[a], q.items)

---------------------------------------------------------------------------
(* C1 *)

\* C1: rewriting is lossless on flattened content.  For every usage in the
\* output of applyPatterns, replacing the reference by the token sequence of
\* the definition of its id gives the flattened token sequence of the input
\* entry it was made from: the payload alone for Exact, payload followed by
\* the leftover tokens for Prefix, leftover tokens followed by the payload
\* for Suffix.
C1_LosslessRewrite ==
  pc = "done" =>
    \A k \in Usages :
      LET u == Out[k].link
          content == ContentOf(Out[k].src)
      IN \E d \in DefinitionsOf(Out[k].ref) : \E p \in Covering(content) :
           LET type == selectedPatterns[p].type
           IN /\ RefersTo(u, type, Out[d].link.id)
              /\ ExpandUsage(u, type, Payload(d)) = content

\* One run emitted a Suffix usage with leftover tokens and a bare usage
C1_Witness ==
  /\ pc = "done"
  /\ \E k \in Usages : \E p \in Covering(ContentOf(Out[k].src)) :
       /\ selectedPatterns[p].type = "suffix"
       /\ Len(Out[k].link.values) >= 2
  /\ \E k \in Usages : Len(Out[k].link.values) = 0

---------------------------------------------------------------------------
(* C2 *)

\* C2: no content string is an item of two different patterns returned by
\* selectBestPatterns, so no entry is rewritten by more than one pattern.
C2_SelectedDisjoint ==
  pc \in {"selected", "done", "noPatterns"} =>
    \A i, j \in DOMAIN selectedPatterns :
      i # j => ~SharesItem(selectedPatterns[i], selectedPatterns[j])

\* Two patterns were selected although a discovered pattern overlaps them
C2_Witness ==
  /\ pc = "selected"
  /\ Len(selectedPatterns) >= 2
  /\ \E k \in DOMAIN patterns : \E i \in DOMAIN selectedPatterns :
       /\ patterns[k] # selectedPatterns[i]
       /\ SharesItem(patterns[k], selectedPatterns[i])

---------------------------------------------------------------------------
(* C3 *)

\* C3: in the rewritten entry sequence every reference id that is used has
\* exactly one definition entry, the definition stands immediately before
\* the first usage of the id, and later usages come without a definition.
C3_DefinedOnceBeforeFirstUse ==
  pc = "done" =>
    \A r \in UsedIds :
      /\ Cardinality(DefinitionsOf(r)) = 1
      /\ \A d \in DefinitionsOf(r) :
           /\ d + 1 \in UsagesOf(r)
           /\ \A u \in UsagesOf(r) : u > d
           /\ Out[d].link.id = refToString(r)

\* An id is used again after entries of other kinds came in between
C3_Witness ==
  /\ pc = "done"
  /\ \E r \in UsedIds : \E u1, u2 \in UsagesOf(r) :
       /\ u2 > u1 + 1
       /\ \E m \in (u1 + 1)..(u2 - 1) : Out[m].ref # r

---------------------------------------------------------------------------
(* C4 *)

\* The output of applyPatterns without its definition entries
WithoutDefinitions == SelectSeq(Out, LAMBDA e : e.tag # "def")

\* C4: without the definition entries the output of applyPatterns has the
\* length of the input and its i-th element comes from the i-th input
\* entry: the entry itself when no selected pattern covers its content,
\* otherwise a usage of the id defined with the covering pattern.
C4_FrameAndOrder ==
  pc = "done" =>
    /\ Len(WithoutDefinitions) = Len(links)
    /\ \A i \in DOMAIN links :
         LET e == WithoutDefinitions[i]
             cover == Covering(ContentOf(i))
         IN /\ e.src = i
            /\ cover = {} => e.tag = "keep" /\ e.link = links[i]
            /\ cover # {} =>
                 /\ e.tag = "use"
                 /\ \E d \in DefinitionsOf(e.ref) : \E p \in cover :
                      /\ Payload(d) = selectedPatterns[p].pattern
                      /\ RefersTo(e.link, selectedPatterns[p].type,
                                  Out[d].link.id)

\* An entry that no selected pattern covers stands between two rewritten ones
C4_Witness ==
  /\ pc = "done"
  /\ \E a, b, c \in DOMAIN Out :
       /\ a < b /\ b < c
       /\ Out[a].tag = "use" /\ Out[b].tag = "keep" /\ Out[c].tag = "use"
       /\ isValid(Out[b].link)

---------------------------------------------------------------------------
(* C5 *)

\* C5: applyPatterns gives the i-th selected pattern the id i, from 1 on;
\* in a run that selects k patterns the ids defined in the output are
\* exactly 1..k, and id i is defined with, and used for, the i-th pattern.
C5_IdsAreSelectionPositions ==
  pc = "done" =>
    /\ {Out[d].ref : d \in Definitions} = 1..Len(selectedPatterns)
    /\ \A d \in Definitions :
         /\ Out[d].link.id = ToString(Out[d].ref)
         /\ Out[d].ref \in DOMAIN selectedPatterns
         /\ Payload(d) = selectedPatterns[Out[d].ref].pattern
    /\ \A u \in Usages :
         /\ Out[u].ref \in DOMAIN selectedPatterns
         /\ InSeq(ContentOf(Out[u].src), selectedPatterns[Out[u].ref].items)

\* A run that selected two patterns and defined both
C5_Witness ==
  /\ pc = "done"
  /\ Len(selectedPatterns) >= 2
  /\ Cardinality(Definitions) >= 2

---------------------------------------------------------------------------
(* C6 *)

\* The position of the first input entry that the r-th selected pattern covers
FirstCovered(r) ==
  CHOOSE i \in DOMAIN links :
    /\ InSeq(ContentOf(i), selectedPatterns[r].items)
    /\ \A j \in 1..(i - 1) : ~InSeq(ContentOf(j), selectedPatterns[r].items)

\* count * number of pattern tokens
ScoreOf(p) == p.count * Len(p.pattern)

\* C6 as stated: ids are assigned in first-seen-in-input order, so the
\* definitions appear in the output in increasing id order.
C6_IdsInFirstSeenOrder ==
  pc = "done" =>
    /\ \A i, j \in DOMAIN selectedPatterns :
         i < j => FirstCovered(i) < FirstCovered(j)
    /\ \A d1, d2 \in Definitions :
         d1 < d2 => Out[d1].ref < Out[d2].ref

\* C6 as amended: ids are assigned in selection order, that is by score
\* descending with ties by count descending; id i is defined with the i-th
\* selected pattern; the definitions appear in the output in the order in
\* which the first covered entries of their patterns occur in the input.
C6_IdsInSelectionOrder ==
  pc = "done" =>
    /\ \A i, j \in DOMAIN selectedPatterns :
         i < j =>
           LET a == selectedPatterns[i]
               b == selectedPatterns[j]
           IN \/ ScoreOf(a) > ScoreOf(b)
              \/ ScoreOf(a) = ScoreOf(b) /\ a.count >= b.count
    /\ \A d \in Definitions :
         /\ Out[d].ref \in DOMAIN selectedPatterns
         /\ Payload(d) = selectedPatterns[Out[d].ref].pattern
    /\ \A d1, d2 \in Definitions :
         d1 < d2 => FirstCovered(Out[d1].ref) < FirstCovered(Out[d2].ref)

\* The definition of a higher id stands before the definition of a lower id
C6_Witness ==
  /\ pc = "done"
  /\ \E d1, d2 \in Definitions : d1 < d2 /\ Out[d1].ref > Out[d2].ref

---------------------------------------------------------------------------
(* C7 *)

AfterSelection == pc \in {"selected", "done", "noPatterns"}

\* C7 as stated: for a non-empty list of patterns the number of patterns
\* returned by selectBestPatterns equals max(1, ceil(total * topPercentage)).
C7_SelectedEqualsBudget ==
  (AfterSelection /\ Len(patterns) >= 1) =>
    Len(selectedPatterns) = Budget(Len(patterns), topPercentage)

\* C7 as amended: the number of patterns returned is at most
\* max(1, ceil(total * topPercentage)), and it is smaller only when every
\* pattern that was not returned shares an item with a returned one.
C7_BudgetOrNoPatternLeft ==
  (AfterSelection /\ Len(patterns) >= 1) =>
    /\ Len(selectedPatterns) <= Budget(Len(patterns), topPercentage)
    /\ \/ Len(selectedPatterns) = Budget(Len(patterns), topPercentage)
       \/ \A k \in DOMAIN patterns :
            \/ InSeq(patterns[k], selectedPatterns)
            \/ \E i \in DOMAIN selectedPatterns :
                 SharesItem(patterns[k], selectedPatterns[i])

\* Fewer patterns than the budget were returned because of an overlap
C7_Witness ==
  /\ pc = "selected"
  /\ Len(patterns) >= 2
  /\ Len(selectedPatterns) < Budget(Len(patterns), topPercentage)

---------------------------------------------------------------------------
(* C8 *)

\* C8: for every topPercentage in [0,1], 0 included, the number of selected
\* patterns is never more than max(1, ceil(total * topPercentage)), is at
\* least 1 when patterns were discovered and is 0 when none was.
C8_WithinBudget ==
  AfterSelection =>
    /\ Len(selectedPatterns) <= Budget(Len(patterns), topPercentage)
    /\ Len(patterns) >= 1 => Len(selectedPatterns) >= 1
    /\ Len(patterns) = 0 => Len(selectedPatterns) = 0

\* topPercentage 0 with several non-overlapping patterns: one is selected
C8_Witness ==
  /\ pc = "selected"
  /\ topPercentage.num = 0
  /\ Len(selectedPatterns) = 1
  /\ \E k \in DOMAIN patterns :
       ~SharesItem(patterns[k], selectedPatterns[1])

---------------------------------------------------------------------------
(* C9 *)

\* The input is N >= 2 copies of one entry with 2 or more tokens
IdenticalMultiToken ==
  /\ Len(links) >= 2
  /\ \A i \in DOMAIN links : links[i] = links[1]
  /\ Len(ContentOf(1)) >= 2

\* A compound without id, with 2 or more children, whose first child is a
\* compound
NestedFirstChild(l) ==
  /\ l.id = ""
  /\ Len(l.values) >= 2
  /\ Len(l.values[1].values) >= 1

\* One definition with the tokens of the entry, then one bare reference to
\* the same id per input entry
OneDefinitionThenBareReferences ==
  /\ pc = "done"
  /\ Len(Out) = Len(links) + 1
  /\ Out[1].tag = "def"
  /\ Out[1].link.id # ""
  /\ Payload(1) = ContentOf(1)
  /\ \A k \in 2..Len(Out) :
       /\ Out[k].tag = "use"
       /\ Out[k].src = k - 1
       /\ Out[k].link = Leaf(Out[1].link.id)

\* C9 as stated: for N >= 2 identical multi-token entries and nothing else
\* the output is one definition followed by N bare references to its id.
C9_IdenticalEntries ==
  (Finished /\ IdenticalMultiToken) => OneDefinitionThenBareReferences

\* C9 as amended: the same, for entries that are not a compound whose first
\* child is a compound.
C9_IdenticalPlainEntries ==
  (Finished /\ IdenticalMultiToken /\ ~NestedFirstChild(links[1])) =>
    OneDefinitionThenBareReferences

\* Three copies of a plain entry were rewritten
C9_Witness ==
  /\ pc = "done"
  /\ IdenticalMultiToken
  /\ ~NestedFirstChild(links[1])
  /\ Len(links) >= 3

---------------------------------------------------------------------------
(* C10 *)

\* The flattened content of the i-th entry occurs once in the input
OccursOnce(i) ==
  Cardinality({j \in DOMAIN links : ContentOf(j) = ContentOf(i)}) = 1

\* The i-th entry is in the output as it is, and nothing else was made of it
KeptUnchanged(i) ==
  /\ \E k \in DOMAIN Out :
       Out[k].src = i /\ Out[k].tag = "keep" /\ Out[k].link = links[i]
  /\ \A k \in DOMAIN Out : Out[k].src = i => Out[k].tag = "keep"

\* An entry of 2 or more tokens that is not a compound with a compound as
\* first child
PlainMultiToken(l) == Len(linkToString(l)) >= 2 /\ ~NestedFirstChild(l)

\* Another such entry, of different content, starts or ends with the same
\* token as the i-th entry
SharesEndWithAnother(i) ==
  /\ PlainMultiToken(links[i])
  /\ \E j \in DOMAIN links :
       /\ PlainMultiToken(links[j])
       /\ ContentOf(j) # ContentOf(i)
       /\ \/ ContentOf(j)[1] = ContentOf(i)[1]
          \/ ContentOf(j)[Len(ContentOf(j))] = ContentOf(i)[Len(ContentOf(i))]

\* C10 as stated: an entry whose flattened content appears exactly once in
\* the input is never rewritten, for every input and every topPercentage.
C10_SingletonNeverRewritten ==
  Finished => \A i \in DOMAIN links : OccursOnce(i) => KeptUnchanged(i)

\* C10 as amended: an entry whose flattened content appears exactly once is
\* never rewritten by an Exact pattern, and it is emitted unchanged unless
\* it has 2 or more tokens, is not a compound with a compound as first
\* child, and shares its first or its last token with another such entry of
\* different content (then a Prefix or Suffix pattern may rewrite it).
C10_SingletonRewrittenOnlyByAffix ==
  Finished =>
    \A i \in DOMAIN links :
      OccursOnce(i) =>
        /\ ~SharesEndWithAnother(i) => KeptUnchanged(i)
        /\ \A k \in Usages :
             Out[k].src = i =>
               \E p \in Covering(ContentOf(i)) :
                 selectedPatterns[p].type \in {"prefix", "suffix"}

\* Other entries were rewritten, and a multi-token entry whose content
\* occurs once and shares no end with another entry was kept
C10_Witness ==
  /\ pc = "done"
  /\ \E i \in DOMAIN links :
       /\ OccursOnce(i)
       /\ Len(ContentOf(i)) >= 2
       /\ ~SharesEndWithAnother(i)
       /\ KeptUnchanged(i)

(***************************************************************************)
(* C11 *)

\* The flattened content of the i-th entry has fewer than 2 tokens
FewerThanTwoTokens(i) == Len(ContentOf(i)) < 2

Returned == pc \in {"empty", "parsingFailed", "noPatterns", "done"}

\* deduplicate has thrown ParseError
Raised == pc = "thrown"

\* The call links = parser.parse(processedInput) has been made
AfterFinalParse ==
  pc \in {"parsed", "found", "selected", "noPatterns", "done", "thrown",
          "parsingFailed"}

\* autoEscape has returned
AfterCascade == autoEscapeEnabled /\ (pc = "start" \/ AfterFinalParse)

\* The argument of the latest call of parser.parse
LastParsed == parseCalls[Len(parseCalls)]

FinalParseFailed == AfterFinalParse /\ LastParsed \notin accepts
FinalParseSucceeded == AfterFinalParse /\ LastParsed \in accepts

\* The input is empty or holds whitespace only
InputIsBlank == \A k \in DOMAIN input : input[k] \in {" ", "\n", "\t"}

HasReason == "reason" \in DOMAIN returnValue

(***************************************************************************)
(* C12 *)

\* C12: every result deduplicate returns has success true iff
\* patternsApplied >= 1 iff reason is absent; patternsApplied is the number
\* of selected patterns; and when success is false the reason is "Empty
\* input" iff the input is blank, "Parsing failed" iff the final parse
\* failed, and "No deduplication patterns found" iff the parse succeeded
\* and no pattern was selected.
C12_ResultInvariants ==
  Returned =>
    /\ returnValue.success <=> returnValue.patternsApplied >= 1
    /\ returnValue.success <=> ~HasReason
    /\ returnValue.patternsApplied = Len(selectedPatterns)
    /\ ~returnValue.success =>
         /\ returnValue.reason = "Empty input" <=> InputIsBlank
         /\ returnValue.reason = "Parsing failed" <=> FinalParseFailed
         /\ returnValue.reason = "No deduplication patterns found" <=>
              FinalParseSucceeded /\ Len(selectedPatterns) = 0

\* A result with two patterns applied was returned for a text that
\* autoEscape had to rewrite in its second pass
C12_Witness ==
  /\ pc = "done"
  /\ Len(stages) = 2
  /\ returnValue.success
  /\ returnValue.patternsApplied = 2

(***************************************************************************)
(* C13 *)

\* The result the blank test returns
EmptyInputResult ==
  [output |-> [text |-> input], success |-> FALSE, reason |-> "Empty input",
   patternsApplied |-> 0]

\* C13: for an empty or whitespace-only input deduplicate returns the
\* input unchanged as output with success false, reason "Empty input" and
\* patternsApplied 0, whatever topPercentage, autoEscapeEnabled and
\* failOnParseError are, and it neither runs autoEscape or the parser nor
\* raises.
C13_BlankInput ==
  InputIsBlank =>
    /\ pc \in {"entry", "empty"}
    /\ pc = "empty" => returnValue = EmptyInputResult
    /\ stages = <<>>
    /\ parseCalls = <<>>

\* A whitespace-only input was returned with autoEscapeEnabled and
\* failOnParseError both set
C13_Witness ==
  /\ pc = "empty"
  /\ input # <<>>
  /\ InputIsBlank
  /\ autoEscapeEnabled
  /\ failOnParseError
  /\ returnValue = EmptyInputResult

(***************************************************************************)
(* C14 *)

\* What autoEscape returns for the input, by its three stages
CascadeResult ==
  IF firstPass(input) \in accepts THEN firstPass(input)
  ELSE IF secondPassOf(input) \in accepts THEN secondPassOf(input)
  ELSE fallbackOf(input)

\* Discovery, selection and rewriting have not run
PipelineNotRun ==
  /\ patterns = <<>>
  /\ selectedPatterns = <<>>
  /\ deduplicatedLinks = <<>>

\* C14: when the final parse fails and failOnParseError is false,
\* deduplicate returns success false, reason "Parsing failed",
\* patternsApplied 0 and as output exactly the text that was handed to the
\* parser: the input when auto-escape is disabled, the result of the
\* cascade when it is enabled; discovery, selection and rewriting are not
\* run.
C14_ParsingFailedResult ==
  FinalParseFailed /\ ~failOnParseError =>
    /\ Returned
    /\ returnValue =
         [output |-> [text |-> LastParsed], success |-> FALSE,
          reason |-> "Parsing failed", patternsApplied |-> 0]
    /\ LastParsed = IF autoEscapeEnabled THEN CascadeResult ELSE input
    /\ PipelineNotRun

\* The final fallback of autoEscape changed the text, the parser rejected
\* it and the changed text was returned
C14_Witness ==
  /\ pc = "parsingFailed"
  /\ autoEscapeEnabled
  /\ Len(stages) = 3
  /\ returnValue.output = [text |-> fallbackOf(input)]
  /\ fallbackOf(input) # input

(***************************************************************************)
(* C15 *)

\* The positions of deduplicate and autoEscape that are followed by a step
StepPositions ==
  {"entry", "secondPass", "fallback", "start", "parsed", "found", "selected"}

\* C15: deduplicate raises ParseError iff failOnParseError is true and the
\* final parse of the (optionally auto-escaped) text fails; with
\* failOnParseError false it never raises, and where it ends it has
\* returned a result.
C15_RaisesIffAsked ==
  /\ Raised <=> failOnParseError /\ FinalParseFailed
  /\ ~failOnParseError => ~Raised /\ (Returned \/ pc \in StepPositions)

\* ParseError was raised after the final fallback of autoEscape
C15_Witness ==
  /\ Raised
  /\ autoEscapeEnabled
  /\ Len(stages) = 3
  /\ LastParsed = fallbackOf(input)

(***************************************************************************)
(* C16 *)

\* The run ended in a parse failure
EndedInParseFailure ==
  \/ Raised
  \/ Returned /\ HasReason /\ returnValue.reason = "Parsing failed"

\* C16: with auto-escape enabled (the parser being a function of its
\* text), deduplicate ends in a parse failure only if the texts of all
\* three stages of the cascade fail to parse; if the text of stage 1 or of
\* stage 2 parses, the run does not end in a parse failure.
C16_FailureOnlyAfterThreeStages ==
  autoEscapeEnabled /\ EndedInParseFailure =>
    /\ firstPass(input) \notin accepts
    /\ secondPassOf(input) \notin accepts
    /\ fallbackOf(input) \notin accepts

\* A run with auto-escape ended in "Parsing failed" although the parser
\* accepts the input as it was given, the three stages giving three
\* different texts
C16_Witness ==
  /\ autoEscapeEnabled
  /\ input \in accepts
  /\ pc = "parsingFailed"
  /\ firstPass(input) # secondPassOf(input)
  /\ secondPassOf(input) # fallbackOf(input)
  /\ firstPass(input) # fallbackOf(input)

(***************************************************************************)
(* C17 *)

\* C17: the cascade is strictly staged.  It returns the stage 1 text iff
\* that text parses; stage 2 is computed and parsed only after stage 1
\* failed and its text is returned iff it parses; stage 3 is computed only
\* after stage 2 failed and its text is returned without being parsed; no
\* later stage runs once an earlier one has parsed.
C17_StrictlyStaged ==
  /\ Len(stages) <= 3
  /\ Len(stages) >= 1 =>
       /\ stages[1] = firstPass(input)
       /\ parseCalls[1] = firstPass(input)
  /\ Len(stages) >= 2 =>
       /\ firstPass(input) \notin accepts
       /\ stages[2] = secondPassOf(input)
       /\ parseCalls[2] = secondPassOf(input)
  /\ Len(stages) = 3 =>
       /\ secondPassOf(input) \notin accepts
       /\ stages[3] = fallbackOf(input)
       /\ pc = "start" => parseCalls = <<firstPass(input), secondPassOf(input)>>
  /\ AfterCascade =>
       /\ stages # <<>>
       /\ processedInput = stages[Len(stages)]
       /\ Len(stages) = 1 <=> firstPass(input) \in accepts
       /\ Len(stages) = 2 <=>
            firstPass(input) \notin accepts /\ secondPassOf(input) \in accepts
       /\ pc = "start" => Len(parseCalls) = Min(Len(stages), 2)

\* The cascade returned the stage 3 text after the parser had been called
\* with the texts of stage 1 and stage 2 only, the three texts differing
C17_Witness ==
  /\ pc = "start"
  /\ Len(stages) = 3
  /\ parseCalls = <<firstPass(input), secondPassOf(input)>>
  /\ processedInput = fallbackOf(input)
  /\ fallbackOf(input) \notin {firstPass(input), secondPassOf(input)}
  /\ firstPass(input) # secondPassOf(input)

(***************************************************************************)
(* C18 *)

\* C18: with auto-escape enabled, an input that the parser already accepts
\* reaches the final parse unchanged.
C18_ValidInputUnchanged ==
  AfterCascade /\ input \in accepts => processedInput = input

(***************************************************************************)
(* C19 *)

\* The token as it was, or between two single quotes
UnchangedOrWrapped(old, new) == new = old \/ new = <<"'">> \o old \o <<"'">>

\* new is old with single quotes put in
RECURSIVE QuotesInserted(_, _)
QuotesInserted(old, new) ==
  IF new = <<>> THEN old = <<>>
  ELSE \/ /\ old # <<>>
          /\ Head(old) = Head(new)
          /\ QuotesInserted(Tail(old), Tail(new))
       \/ /\ Head(new) = "'"
          /\ QuotesInserted(old, Tail(new))

\* The text new has the lines of the text old, and each line the tokens of
\* the line of old, in the same order, each related to its original by Same
SameLinesAndTokens(old, new, Same(_, _)) ==
  LET oldLines == splitLines(old)
      newLines == splitLines(new)
  IN /\ Len(newLines) = Len(oldLines)
     /\ \A k \in DOMAIN oldLines :
          LET oldTokens == referencesOf(oldLines[k])
              newTokens == referencesOf(newLines[k])
          IN /\ Len(newTokens) = Len(oldTokens)
             /\ \A m \in DOMAIN oldTokens : Same(oldTokens[m], newTokens[m])

\* C19 as stated: whichever stage's text the cascade returns, it has the
\* same number of lines as the input and, within each line, the same
\* whitespace-delimited tokens in the same order, each token either
\* unchanged or wrapped in single quotes.
C19_TokensUnchangedOrWrapped ==
  AfterCascade => SameLinesAndTokens(input, processedInput, UnchangedOrWrapped)

\* The token as stage 1 may leave it: a token without a colon is unchanged,
\* one with a colon is unchanged or has pairs of single quotes put in
AfterFirstPass(old, new) ==
  /\ QuotesInserted(old, new)
  /\ (Len(new) - Len(old)) % 2 = 0
  /\ (\A k \in DOMAIN old : old[k] # ":") => new = old

\* C19 as amended: whichever stage's text the cascade returns, it has the
\* same number of lines as the input and, within each line, the same
\* number of whitespace-delimited tokens in the same order.  A token of
\* the stage 2 or stage 3 text is the input token unchanged or wrapped in
\* single quotes; a token of the stage 1 text is the input token unchanged
\* or with single quotes put around one or more parts of it that hold a
\* colon, which need not be the whole token.
C19_TokensUnchangedOrQuoted ==
  AfterCascade =>
    IF Len(stages) = 1
      THEN SameLinesAndTokens(input, processedInput, AfterFirstPass)
      ELSE SameLinesAndTokens(input, processedInput, UnchangedOrWrapped)

\* Stage 1 returned a text in which a part of a token, not the whole
\* token, is between quotes
C19_Witness ==
  /\ AfterCascade
  /\ Len(stages) = 1
  /\ ~SameLinesAndTokens(input, processedInput, UnchangedOrWrapped)
  /\ SameLinesAndTokens(input, processedInput, AfterFirstPass)

(***************************************************************************)
(* C20 *)

\* topPercentage = 1.0
TopPercentageIsOne == topPercentage.num = topPercentage.den

ResultAlone(ls, pct) ==
  LET selected == selectBestPatterns(findPatterns(ls), pct)
  IN IF Len(selected) = 0
       THEN failure(formattedOutput(unchangedLinks(ls)),
                    "No deduplication patterns found")
       ELSE success(formattedOutput(applyPatterns(ls, selected)),
                    Len(selected))

\* The ids of the definitions in a sequence of emitted links
DefinedIds(out) == {out[k].ref : k \in {m \in DOMAIN out : out[m].tag = "def"}}

\* The invocation with the locals l has returned what it returns alone, and
\* its ids are 1 .. number of selected patterns
IndependentOf(l) ==
  l.pc \in {"done", "noPatterns"} =>
    /\ l.returnValue = ResultAlone(l.links, l.topPercentage)
    /\ l.pc = "done" =>
         DefinedIds(l.deduplicatedLinks) = 1..Len(l.selectedPatterns)

AfterFindPatterns == pc = "found"

IsPrefixOf(s, t) == Len(s) <= Len(t) /\ SubSeq(t, 1, Len(s)) = s

IsSuffixOf(s, t) ==
  Len(s) <= Len(t) /\ SubSeq(t, Len(t) - Len(s) + 1, Len(t)) = s

PatternsOfType(type) == {k \in DOMAIN patterns : patterns[k].type = type}

\* The input entries with 2 or more tokens
ValidEntries == {i \in DOMAIN links : Len(linkToString(links[i])) >= 2}

\* The input entries that are compounds without id, with 2 or more
\* children, whose first child has children
StructuredEntries ==
  {i \in ValidEntries :
     /\ links[i].id = ""
     /\ Len(links[i].values) > 1
     /\ Len(links[i].values[1].values) > 0}

EntriesWith(content) == {i \in ValidEntries : ContentOf(i) = content}

(***************************************************************************)
(* C22 *)

WellFormedPattern(p) ==
  /\ \A a \in DOMAIN p.items : Len(p.items[a]) >= 2
  /\ p.type = "exact" => p.items = <<p.pattern>>
  /\ p.type = "prefix" =>
       /\ p.pattern # <<>>
       /\ \A a \in DOMAIN p.items :
            IsPrefixOf(p.pattern, p.items[a]) /\ Len(p.pattern) < Len(p.items[a])
  /\ p.type = "suffix" =>
       /\ p.pattern # <<>>
       /\ \A a \in DOMAIN p.items :
            IsSuffixOf(p.pattern, p.items[a]) /\ Len(p.pattern) < Len(p.items[a])

LongestCommon(c1, c2, type) ==
  LET common == {n \in 0..Min(Len(c1), Len(c2)) - 1 :
                   IF type = "prefix"
                     THEN SubSeq(c1, 1, n) = SubSeq(c2, 1, n)
                     ELSE SubSeq(c1, Len(c1) - n + 1, Len(c1))
                            = SubSeq(c2, Len(c2) - n + 1, Len(c2))}
      n == CHOOSE n \in common : \A m \in common : m <= n
  IN IF type = "prefix" THEN SubSeq(c1, 1, n)
     ELSE SubSeq(c1, Len(c1) - n + 1, Len(c1))

\* The pairs of valid, non-structured entries with different content
PlainPairs ==
  {pair \in (ValidEntries \ StructuredEntries)
              \X (ValidEntries \ StructuredEntries) :
     ContentOf(pair[1]) # ContentOf(pair[2])}

\* Exactly one pattern of the type has the token sequence, and it covers
\* both contents
OnePatternFor(type, tokens, c1, c2) ==
  /\ Cardinality({k \in PatternsOfType(type) : patterns[k].pattern = tokens}) = 1
  /\ \A k \in PatternsOfType(type) :
       patterns[k].pattern = tokens =>
         InSeq(c1, patterns[k].items) /\ InSeq(c2, patterns[k].items)

\* C23: for every pair of valid, non-structured entries with different
\* content whose longest common prefix (of fewer tokens than either entry)
\* is non-empty, findPatterns returns exactly one Prefix pattern with that
\* token sequence, and its items contain both contents; the same holds for
\* the longest common suffix and Suffix patterns.
C23_OnePatternPerCommonAffix ==
  AfterFindPatterns =>
    \A pair \in PlainPairs : \A type \in {"prefix", "suffix"} :
      LET c1 == ContentOf(pair[1])
          c2 == ContentOf(pair[2])
      IN LongestCommon(c1, c2, type) # <<>> =>
           OnePatternFor(type, LongestCommon(c1, c2, type), c1, c2)

\* Three entries share the prefix of one pattern, and another pair of
\* entries has a common suffix
C23_Witness ==
  /\ AfterFindPatterns
  /\ \E k \in PatternsOfType("prefix") : Len(patterns[k].items) >= 3
  /\ \E pair \in PlainPairs :
       LongestCommon(ContentOf(pair[1]), ContentOf(pair[2]), "suffix") # <<>>

(***************************************************************************)
(* C24 *)

AfterDiscovery == pc \in {"found", "selected", "done", "noPatterns"}

\* The contents carried by 2 or more structured entries
StructuredDuplicateContents ==
  {ContentOf(i) : i \in {j \in StructuredEntries :
     \E m \in StructuredEntries : m # j /\ ContentOf(m) = ContentOf(j)}}

\* The flattened first child of the first structured entry with the content
FirstChildOf(content) ==
  LET carriers == {i \in StructuredEntries : ContentOf(i) = content}
      first == CHOOSE i \in carriers : \A m \in carriers : i <= m
  IN linkToString(links[first].values[1])

IsFirstChildPattern(p, content) ==
  /\ p.type = "prefix"
  /\ p.pattern = FirstChildOf(content)
  /\ InSeq(content, p.items)

\* The entry i is emitted as the compound of the reference to id and the
\* tokens of its content that follow the pattern
RewrittenWithLeftover(i, id, pattern) ==
  \E o \in UsagesOf(id) :
    /\ Out[o].src = i
    /\ Out[o].link =
         createCompoundLink(<<Leaf(refToString(id))>>
           \o Leaves(SubSeq(ContentOf(i), Len(pattern) + 1, Len(ContentOf(i)))))

\* C24: a content shared by 2 or more structured entries is never the item
\* of an Exact pattern; it is an item of a Prefix pattern whose pattern is
\* the flattened first child of the first such entry; and when that pattern
\* is selected, every entry with this content is rewritten as the reference
\* followed by the leftover tokens.
C24_StructuredDuplicatesBecomePrefix ==
  AfterDiscovery =>
    \A content \in StructuredDuplicateContents :
      /\ \A k \in DOMAIN patterns :
           patterns[k].type = "exact" => ~InSeq(content, patterns[k].items)
      /\ \E k \in DOMAIN patterns : IsFirstChildPattern(patterns[k], content)
      /\ pc = "done" =>
           \A id \in DOMAIN selectedPatterns :
             IsFirstChildPattern(selectedPatterns[id], content) =>
               \A i \in EntriesWith(content) :
                 RewrittenWithLeftover(i, id, selectedPatterns[id].pattern)

\* Two structured entries with the same content and different first
\* children, and a plain entry with that content, have been rewritten with
\* the first child of the first one
C24_Witness ==
  /\ pc = "done"
  /\ \E i, j \in StructuredEntries :
       /\ i < j
       /\ ContentOf(i) = ContentOf(j)
       /\ links[i].values[1] # links[j].values[1]
       /\ EntriesWith(ContentOf(i)) \ StructuredEntries # {}
       /\ \E id \in DOMAIN selectedPatterns :
            IsFirstChildPattern(selectedPatterns[id], ContentOf(i))

(***************************************************************************)
(* C25 *)

\* The contents carried by 2 or more valid entries
SharedContents ==
  {ContentOf(i) : i \in {j \in ValidEntries :
     \E m \in ValidEntries : m # j /\ ContentOf(m) = ContentOf(j)}}

IsCovered(content) == \E k \in DOMAIN patterns : InSeq(content, patterns[k].items)

\* C25: every content shared by 2 or more valid entries is an item of at
\* least one pattern returned by findPatterns, whether the entries that
\* carry it are structured, non-structured or a mix of both.
C25_SharedContentCovered ==
  AfterDiscovery => \A content \in SharedContents : IsCovered(content)

(***************************************************************************)
(* C26 *)

\* The valid input entries whose content is one of the items of p
CoveredEntries(p) == {i \in ValidEntries : InSeq(ContentOf(i), p.items)}

\* C26: for every pattern returned by findPatterns, whatever its type, count
\* is the number of valid input entries whose content is one of the items
\* of the pattern, and count is at least 2.
C26_CountIsCoveredEntries ==
  AfterFindPatterns =>
    \A k \in DOMAIN patterns :
      /\ patterns[k].count = Cardinality(CoveredEntries(patterns[k]))
      /\ patterns[k].count >= 2

\* A Prefix pattern with two items counts three entries, next to an Exact
\* pattern
C26_Witness ==
  /\ AfterFindPatterns
  /\ PatternsOfType("exact") # {}
  /\ \E k \in PatternsOfType("prefix") :
       Len(patterns[k].items) = 2 /\ patterns[k].count = 3

(***************************************************************************)
(* C27 *)

\* p is not ranked behind q
RankedBefore(p, q) ==
  \/ ScoreOf(p) > ScoreOf(q)
  \/ ScoreOf(p) = ScoreOf(q) /\ p.count >= q.count

\* The ranks of the selected patterns
SelectedRanks == {k \in DOMAIN patterns : InSeq(patterns[k], selectedPatterns)}

\* At the turn of the pattern of rank k the budget is not reached and none
\* of its items belongs to a selected pattern of a smaller rank
AcceptedAtTurn(k) ==
  /\ Cardinality({m \in SelectedRanks : m < k})
       < Budget(Len(patterns), topPercentage)
  /\ \A m \in SelectedRanks : m < k => ~SharesItem(patterns[m], patterns[k])

\* C27: selectBestPatterns is the greedy walk over the patterns ranked by
\* score = count x number of pattern tokens descending, ties by count
\* descending: a pattern is selected iff at its turn the budget is not yet
\* reached and none of its items belongs to an already selected pattern; the
\* top-ranked pattern is always selected, and every unselected pattern
\* ranked before the stopping point shares an item with a selected pattern
\* ranked before it.
C27_GreedyWalk ==
  AfterSelection =>
    /\ \A k, m \in DOMAIN patterns : k < m => RankedBefore(patterns[k], patterns[m])
    /\ \A k \in DOMAIN patterns : k \in SelectedRanks <=> AcceptedAtTurn(k)
    /\ \A j, l \in DOMAIN selectedPatterns :
         j < l => \E k, m \in DOMAIN patterns :
                    /\ k < m
                    /\ patterns[k] = selectedPatterns[j]
                    /\ patterns[m] = selectedPatterns[l]
    /\ patterns # <<>> => 1 \in SelectedRanks
    /\ \A k \in DOMAIN patterns \ SelectedRanks :
         (\E m \in SelectedRanks : m > k) =>
           \E m \in SelectedRanks : m < k /\ SharesItem(patterns[m], patterns[k])

\* A pattern was skipped for an overlap and a pattern ranked behind it was
\* selected at its turn
C27_Witness ==
  /\ AfterSelection
  /\ \E k, m \in DOMAIN patterns :
       /\ k < m
       /\ k \notin SelectedRanks
       /\ m \in SelectedRanks

(***************************************************************************)
(* C28 *)

\* Exact patterns are discovered first, then Prefix, then Suffix patterns
TypeOrder(type) ==
  IF type = "exact" THEN 1 ELSE IF type = "prefix" THEN 2 ELSE 3

InTypeOrder(found) ==
  \A i, j \in DOMAIN found :
    i < j => TypeOrder(found[i].type) <= TypeOrder(found[j].type)

\* The pairs <<i, j>> of positions in found of two overlapping patterns of
\* equal score and equal count, i before j
TiedOverlaps(found) ==
  {pair \in (DOMAIN found) \X (DOMAIN found) :
     /\ pair[1] < pair[2]
     /\ SharesItem(found[pair[1]], found[pair[2]])
     /\ ScoreOf(found[pair[1]]) = ScoreOf(found[pair[2]])
     /\ found[pair[1]].count = found[pair[2]].count}

IsSelected(p) == InSeq(p, selectedPatterns)

\* The input entry i is in the output as it was
LeftUnchanged(i) ==
  \E o \in DOMAIN Out :
    Out[o].tag = "keep" /\ Out[o].src = i /\ Out[o].link = links[i]

\* The entries that the pattern loser covers and the pattern winner does not
CoveredOnlyBy(loser, winner) ==
  {i \in ValidEntries :
     InSeq(ContentOf(i), loser.items) /\ ~InSeq(ContentOf(i), winner.items)}

\* The rank of a discovered pattern in the sorted array
RankOf(p) == CHOOSE k \in DOMAIN patterns : patterns[k] = p

\* C28 as stated: of two overlapping patterns with equal score and equal
\* count the one discovered first (Exact, then Prefix, then Suffix) is
\* selected, and the entries covered only by the other one are left
\* unchanged.
C28_FirstDiscoveredSelected ==
  AfterSelection =>
    LET found == Discovered
    IN /\ InTypeOrder(found)
       /\ \A pair \in TiedOverlaps(found) :
            /\ IsSelected(found[pair[1]])
            /\ ~IsSelected(found[pair[2]])
            /\ Finished =>
                 \A i \in CoveredOnlyBy(found[pair[2]], found[pair[1]]) :
                   LeftUnchanged(i)

\* C28 as amended: of two overlapping patterns with equal score and equal
\* count the one discovered first (Exact, then Prefix, then Suffix) is
\* ranked before the other.  It is selected unless, at its turn, the budget
\* is reached or a selected pattern ranked before it shares an item with
\* it; when it is selected, the other one is not, and the entries covered
\* only by the other one are left unchanged unless a third, selected
\* pattern covers them.
C28_FirstDiscoveredRankedFirst ==
  AfterSelection =>
    LET found == Discovered
    IN /\ InTypeOrder(found)
       /\ \A pair \in TiedOverlaps(found) :
            LET winner == found[pair[1]]
                loser == found[pair[2]]
            IN /\ RankOf(winner) < RankOf(loser)
               /\ IsSelected(winner) \/ ~AcceptedAtTurn(RankOf(winner))
               /\ IsSelected(winner) =>
                    /\ ~IsSelected(loser)
                    /\ Finished =>
                         \A i \in CoveredOnlyBy(loser, winner) :
                           LeftUnchanged(i) \/ Covering(ContentOf(i)) # {}

\* A Prefix pattern was selected against an overlapping Suffix pattern of
\* equal score and count, and an entry covered only by the Suffix pattern
\* is in the output as it was
C28_Witness ==
  /\ pc = "done"
  /\ \E k, m \in DOMAIN patterns :
       /\ k < m
       /\ <<k, m>> \in TiedOverlaps(patterns)
       /\ patterns[k].type = "prefix"
       /\ patterns[m].type = "suffix"
       /\ IsSelected(patterns[k])
       /\ \E i \in CoveredOnlyBy(patterns[m], patterns[k]) : LeftUnchanged(i)

(***************************************************************************)
(* C29 *)

\* The ids and references that occur in a link
RECURSIVE TokensOf(_)
TokensOf(link) ==
  ({link.id} \ {""})
    \cup UNION {TokensOf(link.values[k]) : k \in DOMAIN link.values}

\* The tokens of the usage o that are not its reference
LeftoverTokens(o) ==
  LET vs == Out[o].link.values
      type == selectedPatterns[Out[o].ref].type
  IN IF Len(vs) = 0 THEN {}
     ELSE IF type = "prefix" THEN {vs[k].id : k \in 2..Len(vs)}
     ELSE {vs[k].id : k \in 1..(Len(vs) - 1)}

\* The tokens of the output that come from the input
InputTokens ==
  UNION ( {TokensOf(Out[o].link) : o \in {k \in DOMAIN Out : Out[k].tag = "keep"}}
          \cup {LeftoverTokens(o) : o \in Usages}
          \cup {{Payload(d)[k] : k \in DOMAIN Payload(d)} : d \in Definitions} )

DefinedIdTokens == {refToString(Out[d].ref) : d \in Definitions}

\* C29: a reference is emitted as a leaf whose token is the decimal form of
\* its id, and in the output of deduplicate no token that comes from the
\* input (in an unchanged entry, among the leftover tokens of a usage or in
\* the payload of a definition) is the decimal form of a defined id, so a
\* bare number equal to a defined id always denotes that reference.
C29_IdsDistinctFromInputTokens ==
  pc = "done" =>
    /\ \A o \in Usages :
         RefersTo(Out[o].link, selectedPatterns[Out[o].ref].type,
                  refToString(Out[o].ref))
    /\ InputTokens \cap DefinedIdTokens = {}

(***************************************************************************)
(* C30 *)

\* None of the items of the k-th pattern handed to applyPatterns is the
\* content of an input entry
CoversNoEntry(k) ==
  \A i \in DOMAIN links : ~InSeq(ContentOf(i), selectedPatterns[k].items)

\* The pattern list without its k-th pattern
WithoutPattern(k) ==
  SubSeq(selectedPatterns, 1, k - 1)
    \o SubSeq(selectedPatterns, k + 1, Len(selectedPatterns))

\* The id that the pattern with id r in the list without the k-th pattern
\* has in the whole list
IdWith(k, r) == IF r >= k THEN r + 1 ELSE r

\* The element e of the result for the list without the k-th pattern, with
\* the id its pattern has in the whole list
WithIdOfPosition(e, k) ==
  IF e.tag = "keep" THEN e
  ELSE IF e.tag = "def"
    THEN emitted("def",
                 createReference(IdWith(k, e.ref), ChildIds(e.link.values)),
                 e.src, IdWith(k, e.ref))
  ELSE emitted("use",
               usageLink(IdWith(k, e.ref), selectedPatterns[IdWith(k, e.ref)],
                         ContentOf(e.src)),
               e.src, IdWith(k, e.ref))

\* C30: when applyPatterns is given a pattern none of whose items is the
\* content of an input entry, it returns normally, emits no definition and
\* no usage for that pattern, and rewrites the entries as it would without
\* that pattern, except that the pattern still takes its id: the later
\* patterns keep the ids of their positions in the list.
C30_UnusedPatternOnlyTakesId ==
  pc = "applied" =>
    \A k \in DOMAIN selectedPatterns :
      CoversNoEntry(k) =>
        LET without == applyPatterns(links, WithoutPattern(k))
        IN /\ \A o \in DOMAIN deduplicatedLinks : deduplicatedLinks[o].ref # k
           /\ deduplicatedLinks =
                [o \in DOMAIN without |-> WithIdOfPosition(without[o], k)]

\* applyPatterns was given a pattern that covers no entry before two
\* patterns that do, and has defined the ids 2 and 3
C30_Witness ==
  /\ pc = "applied"
  /\ Len(selectedPatterns) = 3
  /\ CoversNoEntry(1)
  /\ DefinedIds(deduplicatedLinks) = {2, 3}

===========================================================================
